---- MODULE Spec2Model ----
(***************************************************************************)
(* State-machine model of src/src/trader.py: the instance schema and its   *)
(* validator, the per-lot profit model, the two exact solvers              *)
(* (TraderSubset, TraderDP), the algorithm selector and the flow of main.  *)
(*                                                                         *)
(* price_percent is a float in the source.  It is modelled in tenths of a  *)
(* percent (97.5 is 975), and lot_price is computed with exact integer     *)
(* arithmetic; the values the specifications draw are ones for which the   *)
(* float expression int(price_percent * par // 100) gives the same result. *)
(* LotSchema.name is opaque to every operation modelled and is left out.   *)
(* Lot indices are 0-based as in the source; sequences are 1-based, so the *)
(* lot with index idx is lots[idx + 1].                                    *)
(***************************************************************************)
EXTENDS Integers, Sequences, FiniteSets, TLC

\* ------------------------------------------------------------------ bounds
MaxLots == 2
MaxDay == 2
MaxFunds == 4

\* ------------------------------------------------- constants of the program
\* main(): trader_class(..., bond_redemtion_days=30, bond_par_value=1000,
\* bond_payment_per_day=1)
BOND_REDEMTION_DAYS == 30
BOND_PAR_VALUE == 1000
BOND_PAYMENT_PER_DAY == 1

MainBond ==
    [bond_redemtion_days |-> BOND_REDEMTION_DAYS,
     bond_par_value |-> BOND_PAR_VALUE,
     bond_payment_per_day |-> BOND_PAYMENT_PER_DAY]

\* Keyword arguments a caller other than main hands to BaseTrader.__init__:
\* a par value of 2, paid back on the last day, so that lots priced above
\* par have zero or negative profit at costs a small budget can pay.
TestBond ==
    [bond_redemtion_days |-> 0, bond_par_value |-> 2, bond_payment_per_day |-> 1]

\* size values drawn for the lots
Sizes == {1, 2}

\* price_percent values (tenths of a percent) drawn under MainBond:
\* 0.0% and 0.1% of par 1000 give lot prices 0 and 1.
MainPrices == {0, 1}
\* price_percent values drawn under TestBond: 25%, 75%, 150% of par 2 give
\* lot prices 0 (floor of 0.5), 1 (floor of 1.5) and 3.
TestPrices == {250, 750, 1500}

VARIABLES
    schema,        \* TraderSchema: total_days, lot_count_per_day, total_funds, lots
    bond,          \* the three bond keyword arguments
    pc,            \* position of the caller (main, or the two-solver comparison)
    error,         \* message of the ValueError raised, "" when none
    trader_class,  \* class picked by _get_trader_class, "none" before
    trader,        \* fields set by BaseTrader.__init__
    running,       \* class whose calculate() is executing, "none" otherwise
    step,          \* position inside the running calculate()
    idx,           \* outer loop variable of calculate(): enumerate(self._lots)
    lots_map,      \* TraderSubset.calculate: lots_map, in insertion order
    result,        \* TraderSubset.calculate: result (LotsResultSchema)
    funds,         \* TraderDP.calculate: inner loop variable
    max_profit,    \* TraderDP.calculate: max_profit
    lot_choices,   \* TraderDP.calculate: lot_choices
    returned       \* class name -> LotsResultSchema returned by calculate()

vars == <<schema, bond, pc, error, trader_class, trader, running, step, idx,
          lots_map, result, funds, max_profit, lot_choices, returned>>

solverVars == <<running, step, idx, lots_map, result, funds, max_profit,
                lot_choices, returned>>

\* ------------------------------------------------------------- data model
LotSchema(d, p, s) == [day_number |-> d, price_percent |-> p, size |-> s]

TraderSchema(td, lc, tf, ls) ==
    [total_days |-> td, lot_count_per_day |-> lc, total_funds |-> tf, lots |-> ls]

\* LotsResultSchema(): lots=(), profit=0, cost=0
LotsResultSchema == [lots |-> <<>>, profit |-> 0, cost |-> 0]

Classes == {"TraderSubset", "TraderDP"}

RECURSIVE SeqsUpTo(_, _)
SeqsUpTo(S, n) ==
    IF n = 0 THEN {<<>>}
    ELSE LET shorter == SeqsUpTo(S, n - 1)
         IN shorter \cup {Append(q, x) : q \in {r \in shorter : Len(r) = n - 1}, x \in S}

LotsOver(prices) ==
    {LotSchema(d, p, s) : d \in 1..MaxDay, p \in prices, s \in Sizes}

SetMax(S) == CHOOSE x \in S : \A y \in S : y <= x

\* validate(): day_numbers, max(Counter(day_numbers).values()), max(day_numbers)
day_numbers(ls) == [i \in 1..Len(ls) |-> ls[i].day_number]

CounterValues(dn) ==
    {Cardinality({i \in 1..Len(dn) : dn[i] = d}) : d \in {dn[j] : j \in 1..Len(dn)}}

max_lot_count_per_day(ls) == SetMax(CounterValues(day_numbers(ls)))

max_total_days(ls) == SetMax({day_numbers(ls)[i] : i \in 1..Len(ls)})

\* ------------------------------------------------------------ profit model
\* BaseTrader.__init__
NewTrader(sch, b) ==
    [total_days |-> sch.total_days,
     total_funds |-> sch.total_funds,
     lots |-> sch.lots,
     bond_redemtion_days |-> b.bond_redemtion_days,
     bond_par_value |-> b.bond_par_value,
     bond_payment_per_day |-> b.bond_payment_per_day,
     days_factor |-> sch.total_days + b.bond_redemtion_days]

NoTrader == NewTrader(TraderSchema(0, 0, 0, <<>>), [bond_redemtion_days |-> 0,
                      bond_par_value |-> 0, bond_payment_per_day |-> 0])

\* BaseTrader._calculate_profit: [profit, cost] of one lot
calculate_profit(t, lot) ==
    LET lot_price == (lot.price_percent * t.bond_par_value) \div (100 * 10)
        bond_profit == (t.days_factor - lot.day_number) * t.bond_payment_per_day
        bond_consumption == t.bond_par_value - lot_price
    IN [profit |-> lot.size * (bond_profit + bond_consumption),
        cost |-> lot.size * lot_price]


\* --------------------------------------------------------------- validator
\* Variant of validate: the two comparisons in the other order.
validate_Swapped(sch) ==
    IF Len(sch.lots) = 0 THEN "max() arg is an empty sequence"
    ELSE IF sch.lot_count_per_day # max_lot_count_per_day(sch.lots)
         THEN "invalid lot_count_per_day value"
    ELSE IF sch.total_days # max_total_days(sch.lots)
         THEN "invalid total_days value"
    ELSE ""

\* TraderSchema.validate: "" when it returns, else the error raised.  With no
\* lots, max() of the empty Counter raises ValueError before any comparison.
validate(sch) ==
    IF Len(sch.lots) = 0 THEN "max() arg is an empty sequence"
    ELSE IF sch.total_days # max_total_days(sch.lots)
         THEN "invalid total_days value"
    ELSE IF sch.lot_count_per_day # max_lot_count_per_day(sch.lots)
         THEN "invalid lot_count_per_day value"
    ELSE ""

\* ---------------------------------------------------------------- selector
RECURSIVE Pow2(_)
Pow2(n) == IF n = 0 THEN 1 ELSE 2 * Pow2(n - 1)

\* TraderSubset.get_complexity
SubsetComplexity(sch) == Len(sch.lots) * Pow2(Len(sch.lots))

\* TraderDP.get_complexity
DPComplexity(sch) == Len(sch.lots) * sch.total_funds

\* Variant of get_trader_class: equal estimates go to TraderDP.
get_trader_class_TieDP(sch) ==
    IF DPComplexity(sch) <= SubsetComplexity(sch) THEN "TraderDP" ELSE "TraderSubset"

\* _get_trader_class: min() over (TraderSubset, TraderDP) keeps the first of
\* equal keys, so TraderDP is returned only when strictly cheaper.
get_trader_class(sch) ==
    IF DPComplexity(sch) < SubsetComplexity(sch) THEN "TraderDP" ELSE "TraderSubset"

\* --------------------------------------------------- TraderSubset.calculate
\* The inner loop over lots_map.items() for the lot with index i: entries are
\* visited in insertion order from position pos on; acc carries new_lots_map
\* and result.
\* Variants of Admitted used to test that the properties below depend on it.
Admitted_NoCheck(new_cost, total_funds) == new_cost <= new_cost

Admitted_Strict(new_cost, total_funds) == new_cost < total_funds

\* if new_cost <= self._total_funds
Admitted(new_cost, total_funds) == new_cost <= total_funds

RECURSIVE SubsetInner(_, _, _, _, _, _)
SubsetInner(map, pos, i, lot, total_funds, acc) ==
    IF pos > Len(map) THEN acc
    ELSE LET used == map[pos]
             new_profit == used.profit + lot.profit
             new_cost == lot.cost + used.cost
             new_entry == [lots |-> Append(used.lots, i),
                           profit |-> new_profit, cost |-> new_cost]
         IN IF Admitted(new_cost, total_funds)
            THEN SubsetInner(map, pos + 1, i, lot, total_funds,
                     [map |-> Append(acc.map, new_entry),
                      result |-> IF new_profit > acc.result.profit
                                 THEN new_entry ELSE acc.result])
            ELSE SubsetInner(map, pos + 1, i, lot, total_funds, acc)

SubsetStart ==
    /\ running = "TraderSubset" /\ step = "start"
    /\ result' = LotsResultSchema
    /\ lots_map' = <<[lots |-> <<>>, profit |-> 0, cost |-> 0]>>
    /\ idx' = 0
    /\ step' = "outer"
    /\ UNCHANGED <<schema, bond, pc, error, trader_class, trader, running,
                   funds, max_profit, lot_choices, returned>>

SubsetLot ==
    /\ running = "TraderSubset" /\ step = "outer"
    /\ idx < Len(trader.lots)
    /\ LET lot == calculate_profit(trader, trader.lots[idx + 1])
           out == SubsetInner(lots_map, 1, idx, lot, trader.total_funds,
                              [map |-> lots_map, result |-> result])
       IN /\ lots_map' = out.map
          /\ result' = out.result
    /\ idx' = idx + 1
    /\ UNCHANGED <<schema, bond, pc, error, trader_class, trader, running, step,
                   funds, max_profit, lot_choices, returned>>

SubsetReturn ==
    /\ running = "TraderSubset" /\ step = "outer"
    /\ idx = Len(trader.lots)
    /\ returned' = returned @@ ("TraderSubset" :> result)
    /\ step' = "returned"
    /\ UNCHANGED <<schema, bond, pc, error, trader_class, trader, running, idx,
                   lots_map, result, funds, max_profit, lot_choices>>

\* ------------------------------------------------------- TraderDP.calculate
\* Variants of DPRelax: the look-up ignores the lot's cost; the choice list
\* is extended from the wrong level; the lot's index is not recorded.
DPRelax_IgnoreCost(mp, lc, f, i, lot) ==
    LET new_profit == mp[f] + lot.profit
    IN IF new_profit > mp[f]
       THEN [max_profit |-> [mp EXCEPT ![f] = new_profit],
             lot_choices |-> [lc EXCEPT ![f] = Append(lc[f], i)]]
       ELSE [max_profit |-> mp, lot_choices |-> lc]

DPRelax_WrongLevel(mp, lc, f, i, lot) ==
    LET new_profit == mp[f - lot.cost] + lot.profit
    IN IF new_profit > mp[f]
       THEN [max_profit |-> [mp EXCEPT ![f] = new_profit],
             lot_choices |-> [lc EXCEPT ![f] = Append(lc[f], i)]]
       ELSE [max_profit |-> mp, lot_choices |-> lc]

DPRelax_Forget(mp, lc, f, i, lot) ==
    LET new_profit == mp[f - lot.cost] + lot.profit
    IN IF new_profit > mp[f]
       THEN [max_profit |-> [mp EXCEPT ![f] = new_profit],
             lot_choices |-> [lc EXCEPT ![f] = lc[f - lot.cost]]]
       ELSE [max_profit |-> mp, lot_choices |-> lc]

\* One pass of the body of the funds loop at level f, for the lot with index i.
DPRelax(mp, lc, f, i, lot) ==
    LET new_profit == mp[f - lot.cost] + lot.profit
    IN IF new_profit > mp[f]
       THEN [max_profit |-> [mp EXCEPT ![f] = new_profit],
             lot_choices |-> [lc EXCEPT ![f] = Append(lc[f - lot.cost], i)]]
       ELSE [max_profit |-> mp, lot_choices |-> lc]

\* Variant of BestFunds: the last level of maximal key.
BestFunds_Last(mp, total_funds) ==
    CHOOSE f \in 0..total_funds :
        /\ \A g \in 0..total_funds : mp[g] <= mp[f]
        /\ \A g \in (f + 1)..total_funds : mp[g] < mp[f]

\* max(range(total_funds + 1), key=...): the first level of maximal key
BestFunds(mp, total_funds) ==
    CHOOSE f \in 0..total_funds :
        /\ \A g \in 0..total_funds : mp[g] <= mp[f]
        /\ \A g \in 0..(f - 1) : mp[g] < mp[f]

DPStart ==
    /\ running = "TraderDP" /\ step = "start"
    /\ max_profit' = [f \in 0..trader.total_funds |-> 0]
    /\ lot_choices' = [f \in 0..trader.total_funds |-> <<>>]
    /\ idx' = 0
    /\ step' = "outer"
    /\ UNCHANGED <<schema, bond, pc, error, trader_class, trader, running,
                   lots_map, result, funds, returned>>

\* for idx, lot in enumerate(self._lots): the funds loop starts at total_funds
DPLot ==
    /\ running = "TraderDP" /\ step = "outer"
    /\ idx < Len(trader.lots)
    /\ funds' = trader.total_funds
    /\ step' = "inner"
    /\ UNCHANGED <<schema, bond, pc, error, trader_class, trader, running, idx,
                   lots_map, result, max_profit, lot_choices, returned>>

\* one iteration of: for funds in range(total_funds, lot_cost - 1, -1)
DPFunds ==
    /\ running = "TraderDP" /\ step = "inner"
    /\ LET lot == calculate_profit(trader, trader.lots[idx + 1])
       IN /\ funds >= lot.cost
          /\ LET out == DPRelax(max_profit, lot_choices, funds, idx, lot)
             IN /\ max_profit' = out.max_profit
                /\ lot_choices' = out.lot_choices
    /\ funds' = funds - 1
    /\ UNCHANGED <<schema, bond, pc, error, trader_class, trader, running, step,
                   idx, lots_map, result, returned>>

\* the range is exhausted: next lot
DPLotDone ==
    /\ running = "TraderDP" /\ step = "inner"
    /\ funds < calculate_profit(trader, trader.lots[idx + 1]).cost
    /\ idx' = idx + 1
    /\ step' = "outer"
    /\ UNCHANGED <<schema, bond, pc, error, trader_class, trader, running,
                   lots_map, result, funds, max_profit, lot_choices, returned>>

DPReturn ==
    /\ running = "TraderDP" /\ step = "outer"
    /\ idx = Len(trader.lots)
    /\ LET max_funds == BestFunds(max_profit, trader.total_funds)
       IN returned' = returned @@
              ("TraderDP" :> [lots |-> lot_choices[max_funds],
                              profit |-> max_profit[max_funds],
                              cost |-> max_funds])
    /\ step' = "returned"
    /\ UNCHANGED <<schema, bond, pc, error, trader_class, trader, running, idx,
                   lots_map, result, funds, max_profit, lot_choices>>

Calculate ==
    \/ SubsetStart \/ SubsetLot \/ SubsetReturn
    \/ DPStart \/ DPLot \/ DPFunds \/ DPLotDone \/ DPReturn

\* -------------------------------------------------------------------- main
NoReturn == [c \in {} |-> LotsResultSchema]

InitSolver ==
    /\ trader_class = "none"
    /\ trader = NoTrader
    /\ running = "none"
    /\ step = "idle"
    /\ idx = 0
    /\ lots_map = <<>>
    /\ result = LotsResultSchema
    /\ funds = 0
    /\ max_profit = <<>>
    /\ lot_choices = <<>>
    /\ returned = NoReturn
    /\ error = ""

\* The input file holding the single line "0 0 1000": no lot lines.
EmptyInstance == TraderSchema(0, 0, 1000, <<>>)

\* read_input() has returned a schema; nothing has checked it yet.
Init ==
    /\ schema \in {TraderSchema(td, lc, tf, ls) :
                      td \in 0..MaxDay, lc \in 0..MaxLots, tf \in 0..MaxFunds,
                      ls \in SeqsUpTo(LotsOver(MainPrices), MaxLots)}
                 \cup {EmptyInstance}
    /\ bond = MainBond
    /\ pc = "validate"
    /\ InitSolver

\* main: trader_schema.validate()
Validate ==
    /\ pc = "validate"
    /\ error' = validate(schema)
    /\ pc' = IF validate(schema) = "" THEN "select" ELSE "raised"
    /\ UNCHANGED <<schema, bond, trader_class, trader>>
    /\ UNCHANGED solverVars

\* main: trader_class = _get_trader_class(trader_schema)
Select ==
    /\ pc = "select"
    /\ trader_class' = get_trader_class(schema)
    /\ pc' = "construct"
    /\ UNCHANGED <<schema, bond, error, trader>>
    /\ UNCHANGED solverVars

\* main: trader = trader_class(trader_schema, ...); trader.calculate() is entered
Construct ==
    /\ pc = "construct"
    /\ trader' = NewTrader(schema, bond)
    /\ running' = trader_class
    /\ step' = "start"
    /\ pc' = "calculate"
    /\ UNCHANGED <<schema, bond, error, trader_class, idx, lots_map, result,
                   funds, max_profit, lot_choices, returned>>

\* main: result = trader.calculate() has returned
Solved ==
    /\ pc = "calculate" /\ step = "returned"
    /\ running' = "none"
    /\ step' = "idle"
    /\ pc' = "done"
    /\ UNCHANGED <<schema, bond, error, trader_class, trader, idx, lots_map,
                   result, funds, max_profit, lot_choices, returned>>

Next == Validate \/ Select \/ Construct \/ Calculate \/ Solved

Spec == Init /\ [][Next]_vars

\* ------------------------------------------- both solvers on one instance
\* A validated instance (or the empty one) is handed to TraderSubset and then
\* to TraderDP with the same bond arguments, as a test comparing them does.
ValidSchemas(prices) ==
    {TraderSchema(max_total_days(ls), max_lot_count_per_day(ls), tf, ls) :
        tf \in 0..MaxFunds, ls \in SeqsUpTo(LotsOver(prices), MaxLots) \ {<<>>}}
    \cup {TraderSchema(0, 0, tf, <<>>) : tf \in 0..MaxFunds}

InitBoth ==
    /\ schema \in ValidSchemas(TestPrices)
    /\ bond = TestBond
    /\ pc = "compare"
    /\ InitSolver

RunSubset ==
    /\ pc = "compare" /\ running = "none"
    /\ trader' = NewTrader(schema, bond)
    /\ running' = "TraderSubset"
    /\ step' = "start"
    /\ UNCHANGED <<schema, bond, pc, error, trader_class, idx, lots_map, result,
                   funds, max_profit, lot_choices, returned>>

RunDP ==
    /\ pc = "compare" /\ running = "TraderSubset" /\ step = "returned"
    /\ trader' = NewTrader(schema, bond)
    /\ running' = "TraderDP"
    /\ step' = "start"
    /\ UNCHANGED <<schema, bond, pc, error, trader_class, idx, lots_map, result,
                   funds, max_profit, lot_choices, returned>>

Compared ==
    /\ pc = "compare" /\ running = "TraderDP" /\ step = "returned"
    /\ running' = "none"
    /\ step' = "idle"
    /\ pc' = "compared"
    /\ UNCHANGED <<schema, bond, error, trader_class, trader, idx, lots_map,
                   result, funds, max_profit, lot_choices, returned>>

NextBoth == RunSubset \/ RunDP \/ Compared \/ Calculate

SpecBoth == InitBoth /\ [][NextBoth]_vars


\* ================================================================ properties
\* Sums over a selection (a sequence of lot indices) and over a set of indices.
RECURSIVE SelProfit(_, _)
SelProfit(t, sel) ==
    IF sel = <<>> THEN 0
    ELSE calculate_profit(t, t.lots[Head(sel) + 1]).profit + SelProfit(t, Tail(sel))

RECURSIVE SelCost(_, _)
SelCost(t, sel) ==
    IF sel = <<>> THEN 0
    ELSE calculate_profit(t, t.lots[Head(sel) + 1]).cost + SelCost(t, Tail(sel))

RECURSIVE SetProfit(_, _)
SetProfit(t, S) ==
    IF S = {} THEN 0
    ELSE LET i == CHOOSE j \in S : TRUE
         IN calculate_profit(t, t.lots[i + 1]).profit + SetProfit(t, S \ {i})

RECURSIVE SetCost(_, _)
SetCost(t, S) ==
    IF S = {} THEN 0
    ELSE LET i == CHOOSE j \in S : TRUE
         IN calculate_profit(t, t.lots[i + 1]).cost + SetCost(t, S \ {i})

Indices(t) == 0..(Len(t.lots) - 1)

\* the subsets of lot indices, the empty one included, the budget can pay
Feasible(t) == {S \in SUBSET Indices(t) : SetCost(t, S) <= t.total_funds}

OptProfit(t) == SetMax({SetProfit(t, S) : S \in Feasible(t)})

Optimal(t) == {S \in Feasible(t) : SetProfit(t, S) = OptProfit(t)}

SetMin(S) == CHOOSE x \in S : \A y \in S : x <= y

Elems(sel) == {sel[k] : k \in 1..Len(sel)}

HasReturned(c) == c \in DOMAIN returned

BothReturned == HasReturned("TraderSubset") /\ HasReturned("TraderDP")

LotCosts(t) == {calculate_profit(t, t.lots[i + 1]).cost : i \in Indices(t)}

LotProfits(t) == {calculate_profit(t, t.lots[i + 1]).profit : i \in Indices(t)}

\* C1: the Result either solver returns has cost <= total_funds (instances
\* with total_funds >= 0 and lots of non-negative cost).
C1_CostWithinFunds ==
    \A c \in DOMAIN returned : returned[c].cost <= schema.total_funds

\* C1 witness: both solvers have returned a non-empty selection on an instance
\* where some lot costs more than the whole budget.
C1_Witness ==
    /\ BothReturned
    /\ \E x \in LotCosts(trader) : x > schema.total_funds
    /\ returned["TraderSubset"].cost > 0
    /\ returned["TraderDP"].cost > 0

\* C2: on the same instance and bond arguments, TraderSubset.calculate and
\* TraderDP.calculate return the same profit.
C2_SameProfit ==
    BothReturned => returned["TraderSubset"].profit = returned["TraderDP"].profit

\* C2 witness: both have returned a positive profit on an instance where not
\* every subset is feasible.
C2_Witness ==
    /\ BothReturned
    /\ returned["TraderSubset"].profit > 0
    /\ returned["TraderDP"].profit > 0
    /\ Feasible(trader) # SUBSET Indices(trader)

\* C3: each solver is exact: the profit it returns is the maximum of the summed
\* per-lot profits over all subsets of lot indices, the empty one included,
\* whose total cost is <= total_funds.
C3_Exact ==
    \A c \in DOMAIN returned : returned[c].profit = OptProfit(trader)

\* C3 witness: both have returned, the optimum is positive, it is not attained
\* by taking every lot, and some lot has negative profit.
C3_Witness ==
    /\ BothReturned
    /\ OptProfit(trader) > 0
    /\ Indices(trader) \notin Optimal(trader)
    /\ \E x \in LotProfits(trader) : x < 0

\* C4: the Result of each solver is self-consistent: profit is the sum of the
\* per-lot profits of the indices in Result.lots and cost is the sum of their
\* per-lot costs (for TraderDP, f* is the exact cost of the selection).
C4_SelfConsistent ==
    \A c \in DOMAIN returned :
        /\ returned[c].profit = SelProfit(trader, returned[c].lots)
        /\ returned[c].cost = SelCost(trader, returned[c].lots)

\* C4 witness: TraderDP has returned a non-empty selection that leaves part of
\* the budget unspent.
C4_Witness ==
    /\ HasReturned("TraderDP")
    /\ returned["TraderDP"].lots # <<>>
    /\ returned["TraderDP"].cost < schema.total_funds

\* C8: TraderDP.calculate returns the smallest funds level at which max_profit
\* is maximal, and that level is the least total cost among the feasible
\* subsets that attain the optimal profit.
C8_LeastCost ==
    HasReturned("TraderDP") =>
        LET r == returned["TraderDP"]
        IN /\ \A f \in 0..trader.total_funds : max_profit[f] <= max_profit[r.cost]
           /\ \A f \in 0..(r.cost - 1) : max_profit[f] < max_profit[r.cost]
           /\ r.cost = SetMin({SetCost(trader, S) : S \in Optimal(trader)})

\* C8 witness: TraderDP has returned on an instance with optimal subsets of
\* different costs, the cheapest of them costing something.
C8_Witness ==
    /\ HasReturned("TraderDP")
    /\ Cardinality({SetCost(trader, S) : S \in Optimal(trader)}) > 1
    /\ returned["TraderDP"].cost > 0

\* C9 (as claimed): on every instance, ties included, TraderDP.calculate and
\* TraderSubset.calculate return the same cost and the same selected indices.
C9_Claimed ==
    BothReturned =>
        /\ returned["TraderDP"].cost = returned["TraderSubset"].cost
        /\ Elems(returned["TraderDP"].lots) = Elems(returned["TraderSubset"].lots)

\* C9 (amended): when exactly one feasible subset attains the optimal profit,
\* both solvers return the same cost and the same selected indices.
C9_SameWhenUnique ==
    (BothReturned /\ Cardinality(Optimal(trader)) = 1) =>
        /\ returned["TraderDP"].cost = returned["TraderSubset"].cost
        /\ returned["TraderDP"].lots = returned["TraderSubset"].lots
        /\ Elems(returned["TraderDP"].lots) \in Optimal(trader)

\* C9 witness: both have returned on an instance whose single optimal subset
\* is neither empty nor everything and leaves budget unspent.
C9_Witness ==
    /\ BothReturned
    /\ Cardinality(Optimal(trader)) = 1
    /\ returned["TraderDP"].lots # <<>>
    /\ Len(returned["TraderDP"].lots) < Len(trader.lots)
    /\ returned["TraderDP"].cost < schema.total_funds

\* the lots the outer loop of TraderDP.calculate has taken up
TakenUp == IF step = "inner" THEN 0..idx ELSE 0..(idx - 1)

\* C10: in every state of TraderDP.calculate, for every funds level f the list
\* lot_choices[f] holds only indices of lots the outer loop has taken up, each
\* at most once, has total cost <= f and total profit max_profit[f].
C10_ChoicesInvariant ==
    (running = "TraderDP" /\ step # "start") =>
        \A f \in 0..trader.total_funds :
            LET sel == lot_choices[f]
            IN /\ Elems(sel) \subseteq TakenUp
               /\ Cardinality(Elems(sel)) = Len(sel)
               /\ SelCost(trader, sel) <= f
               /\ SelProfit(trader, sel) = max_profit[f]

\* C10 witness: the scan of a lot of cost 0 is under way, the top level has
\* already taken that lot next to an earlier one, lower levels are still to do.
C10_Witness ==
    /\ running = "TraderDP" /\ step = "inner"
    /\ calculate_profit(trader, trader.lots[idx + 1]).cost = 0
    /\ funds < trader.total_funds /\ funds >= 0
    /\ idx \in Elems(lot_choices[trader.total_funds])
    /\ Len(lot_choices[trader.total_funds]) > 1


\* ---------------------------------------------------------- flow of main
Selected == trader_class # "none"

EstimatesEqual(sch) == SubsetComplexity(sch) = DPComplexity(sch)

\* C5 (as claimed): the selector returns KnapsackDP when n*F < n*2^n,
\* SubsetEnumeration when n*2^n < n*F, and KnapsackDP when the two are equal.
C5_Claimed ==
    Selected =>
        trader_class = IF Len(schema.lots) * schema.total_funds
                          <= Len(schema.lots) * Pow2(Len(schema.lots))
                       THEN "TraderDP" ELSE "TraderSubset"

\* C5 (amended): the selector returns KnapsackDP when n*F < n*2^n and
\* SubsetEnumeration otherwise: equal estimates, the n = 0 case included, go
\* to SubsetEnumeration, the first of the two candidates.
C5_TiesToSubset ==
    LET n == Len(schema.lots)
        F == schema.total_funds
        expected == IF n * F < n * Pow2(n) THEN "TraderDP" ELSE "TraderSubset"
    IN /\ get_trader_class(schema) = expected
       /\ Selected => trader_class = expected

\* C5 witness: main has selected TraderSubset on equal, non-zero estimates.
C5_Witness ==
    /\ trader_class = "TraderSubset"
    /\ EstimatesEqual(schema)
    /\ Len(schema.lots) > 0

\* C6 (as claimed): validate, select, solve on the empty-lots instance
\* (total_days=0, lot_count_per_day=0, total_funds=1000) does not fail and
\* yields profit=0, cost=0, empty selection.
C6_Claimed ==
    schema = EmptyInstance =>
        /\ error = ""
        /\ pc # "raised"
        /\ pc = "done" => returned[trader_class] = LotsResultSchema

Mismatch(sch) ==
    \/ sch.total_days # max_total_days(sch.lots)
    \/ sch.lot_count_per_day # max_lot_count_per_day(sch.lots)

\* C7, state part: with at least one lot, validate succeeds exactly when both
\* declared values equal the derived ones; a mismatch raises, total_days
\* reported first; after a raise no class is selected and no solver has run.
C7_State ==
    (pc # "validate" /\ Len(schema.lots) >= 1) =>
        /\ (error = "") <=> ~Mismatch(schema)
        /\ schema.total_days # max_total_days(schema.lots)
               => error = "invalid total_days value"
        /\ (/\ schema.total_days = max_total_days(schema.lots)
            /\ schema.lot_count_per_day # max_lot_count_per_day(schema.lots))
               => error = "invalid lot_count_per_day value"
        /\ (error = "") <=> (pc # "raised")
        /\ pc = "raised" =>
               /\ trader_class = "none"
               /\ trader = NoTrader
               /\ running = "none" /\ step = "idle"
               /\ returned = NoReturn

\* C7: the state part holds always, nothing follows a raise, and no step
\* changes the instance's fields.
C7_ValidateContract ==
    /\ []C7_State
    /\ [][pc = "raised" => pc' = "raised"]_vars
    /\ [][schema' = schema]_vars

\* C7 witness: validate has raised on an instance with lots whose two declared
\* values are both wrong.
C7_Witness ==
    /\ pc = "raised"
    /\ Len(schema.lots) >= 2
    /\ schema.total_days # max_total_days(schema.lots)
    /\ schema.lot_count_per_day # max_lot_count_per_day(schema.lots)
    /\ error = "invalid total_days value"

====
